---- MODULE Spec2Model ----
(***************************************************************************)
(* The two retry state machines of futures-retry:                          *)
(*   StreamRetry (src/src/stream.rs) wraps a TryStream in place and keeps  *)
(*   an attempt counter;                                                   *)
(*   FutureRetry (src/src/future.rs) drives futures made by a factory.     *)
(* One behaviour runs one of the two machines, chosen in Init.  A step of  *)
(* PollNext / Poll is one iteration of the `loop` inside the poll method;  *)
(* pc = "loop" means the poll call is still running, pc = "idle" that it   *)
(* has returned `ret` to the driver, "done" that FutureRetry has returned  *)
(* a result, "panic" that the call has panicked; nothing in the code stops *)
(* a driver from polling again after either.                               *)
(***************************************************************************)
EXTENDS Integers, Sequences, FiniteSets, TLC

\* ---------------------------------------------------------------- bounds
MaxLen == 3         \* longest wrapped stream explored
MaxFutures == 3     \* most futures the factory is asked for
MaxCounter == 2     \* largest initial value handed to with_counter
MaxHandled == 12    \* largest ceiling of an IoHandler, and most failures it is given

\* ---------------------------------------------------------------- values
OkVals == {1, 17, 19}
ErrVals == {17}
OutErrors == {1, 2, 17}        \* what a handler may put into ForwardError
FutureOkVals == {1, 3}
FutureErrVals == {1, 2}

Item(k, v) == [kind |-> k, val |-> v]
StreamItems == {Item("Ok", v) : v \in OkVals} \cup {Item("Err", e) : e \in ErrVals}
FutureOutcomes ==
    {Item("Ok", v) : v \in FutureOkVals} \cup {Item("Err", e) : e \in FutureErrVals}

SeqsUpTo(S, n) == UNION {[1..k -> S] : k \in 0..n}

\* RetryPolicy<E>: ForwardError(E) | Repeat | WaitRetry(Duration)
Policy(p, e) == [p |-> p, e |-> e]
RetryPolicy ==
    {Policy("ForwardError", f) : f \in OutErrors}
        \cup {Policy("Repeat", 0), Policy("WaitRetry", 0)}

\* A duration that cannot be added to the clock: Instant::now() + duration
\* overflows (Duration::MAX is one).  FutureRetry does the addition itself;
\* StreamRetry hands the duration to time::sleep, whose failure
\* StreamSleepFails allows for any duration.
Duration_MAX == 2147483647
FutureRetryPolicy == RetryPolicy \cup {Policy("WaitRetry", Duration_MAX)}

\* What a poll hands back to its driver.
Ret(k, v, a) == [kind |-> k, val |-> v, attempt |-> a]
NoRet == Ret("none", 0, 0)

\* One call of the error handler, as the handler sees it: `attempt` is the
\* argument it is given, `counter` the value of the attempt field at the
\* time of the call.
Call(op, a, e, pol, c) ==
    [op |-> op, attempt |-> a, err |-> e, policy |-> pol, counter |-> c]

VARIABLES
    machine,    \* "StreamRetry" or "FutureRetry"
    state,      \* RetryState tag
    delay,      \* the timer held by TimerActive: none / pending / elapsed / error
    attempt,    \* StreamRetry.attempt
    src,        \* the wrapped stream's items (fixed)
    pos,        \* how many of them the wrapper has taken
    counter0,   \* the attempt counter given at construction
    made,       \* outcomes of the futures the factory has produced, in order
    cur,        \* index in made of the future held by WaitingForFuture, 0 if none
    log,        \* calls of the error handler, in order
    out,        \* elements the stream wrapper has emitted, results FutureRetry has returned
    ret,        \* what the last poll returned
    pc,         \* the poll call: running (loop), or how it ended (idle / done / panic)
    last,       \* which arm the last step took
    failed,     \* indices in made of the futures that have returned Err
    max_attempts,     \* IoHandler.max_attempts
    current_attempt,  \* IoHandler.current_attempt
    answer      \* the RetryPolicy the IoHandler returned last

vars == <<machine, state, delay, attempt, src, pos, counter0, made, cur,
          log, out, ret, pc, last, failed, max_attempts, current_attempt, answer>>

streamVars == <<src, pos, counter0, attempt, out>>
futureVars == <<made, cur>>
ioVars == <<max_attempts, current_attempt, answer>>

\* ---------------------------------------------------------- construction
\* StreamRetry::with_counter(stream, error_action, attempt_counter)
with_counter(s, c) ==
    /\ machine = "StreamRetry"
    /\ src = s
    /\ pos = 0
    /\ counter0 = c
    /\ attempt = c
    /\ state = "WaitingForStream"
    /\ delay = "none"
    /\ made = <<>>
    /\ cur = 0

\* StreamRetry::new(stream, error_action)
StreamRetry_new(s) == with_counter(s, 1)

\* FutureRetry::new(factory, error_action): the factory is called once.
FutureRetry_new(first) ==
    /\ machine = "FutureRetry"
    /\ made = <<first>>
    /\ cur = 1
    /\ state = "WaitingForFuture"
    /\ delay = "none"
    /\ src = <<>>
    /\ pos = 0
    /\ counter0 = 0
    /\ attempt = 0

\* IoHandler::new(max_attempts, display_name)
IoHandler_new(m) ==
    /\ machine = "IoHandler"
    /\ max_attempts = m
    /\ current_attempt = 0
    /\ answer = Policy("none", 0)
    /\ src = <<>>
    /\ pos = 0
    /\ counter0 = 0
    /\ attempt = 0
    /\ state = "none"
    /\ delay = "none"
    /\ made = <<>>
    /\ cur = 0

\* A retry machine driven by some other handler holds no IoHandler.
NoIoHandler ==
    /\ max_attempts = 0
    /\ current_attempt = 0
    /\ answer = Policy("none", 0)

Init ==
    /\ \/ /\ NoIoHandler
          /\ \E s \in SeqsUpTo(StreamItems, MaxLen) : StreamRetry_new(s)
       \/ /\ NoIoHandler
          /\ \E s \in SeqsUpTo(StreamItems, MaxLen), c \in 0..MaxCounter :
                 with_counter(s, c)
       \/ /\ NoIoHandler
          /\ \E f \in FutureOutcomes : FutureRetry_new(f)
       \/ \E m \in 0..MaxHandled : IoHandler_new(m)
    /\ log = <<>>
    /\ out = <<>>
    /\ ret = NoRet
    /\ pc = "idle"
    /\ last = "new"
    /\ failed = {}

\* ------------------------------------------------------------ StreamRetry
\* The driver calls poll_next, or the loop inside a running call goes round:
\* the stream wrapper is polled for as long as the driver keeps consuming,
\* also after a call that panicked.
InPollNext ==
    /\ machine = "StreamRetry"
    /\ pc \in {"idle", "loop", "panic"}

\* TimerActive: ready!(delay.poll(cx)) with the timer still pending.
StreamDelayPending ==
    /\ InPollNext
    /\ state = "TimerActive"
    /\ delay = "pending"
    /\ ret' = Ret("Pending", 0, 0)
    /\ pc' = "idle"
    /\ last' = "delay_pending"
    /\ UNCHANGED <<machine, state, delay, log>>
    /\ UNCHANGED streamVars
    /\ UNCHANGED futureVars
    /\ UNCHANGED failed
    /\ UNCHANGED ioVars

\* TimerActive: the timer has elapsed; back to WaitingForStream and loop.
StreamDelayElapsed_ResetsAttempt ==
    /\ InPollNext
    /\ state = "TimerActive"
    /\ delay = "elapsed"
    /\ state' = "WaitingForStream"
    /\ delay' = "none"
    /\ ret' = NoRet
    /\ pc' = "loop"
    /\ last' = "delay_elapsed"
    /\ UNCHANGED <<machine, log>>
    /\ attempt' = 1
    /\ UNCHANGED <<src, pos, counter0, out>>
    /\ UNCHANGED futureVars
    /\ UNCHANGED failed
    /\ UNCHANGED ioVars
StreamDelayElapsed ==
    /\ InPollNext
    /\ state = "TimerActive"
    /\ delay = "elapsed"
    /\ state' = "WaitingForStream"
    /\ delay' = "none"
    /\ ret' = NoRet
    /\ pc' = "loop"
    /\ last' = "delay_elapsed"
    /\ UNCHANGED <<machine, log>>
    /\ UNCHANGED streamVars
    /\ UNCHANGED futureVars
    /\ UNCHANGED failed
    /\ UNCHANGED ioVars

\* TimerActive: the Sleep cannot be polled (its runtime is gone): delay.poll
\* panics, and the state is left as it is.
StreamDelayError ==
    /\ InPollNext
    /\ state = "TimerActive"
    /\ delay = "error"
    /\ ret' = Ret("Panic", 0, 0)
    /\ pc' = "panic"
    /\ last' = "delay_error"
    /\ UNCHANGED <<machine, state, delay, log>>
    /\ UNCHANGED streamVars
    /\ UNCHANGED futureVars
    /\ UNCHANGED failed
    /\ UNCHANGED ioVars

\* WaitingForStream: ready!(stream.try_poll_next(cx)) is Pending.
StreamNotReady_Counts ==
    /\ InPollNext
    /\ state = "WaitingForStream"
    /\ ret' = Ret("Pending", 0, 0)
    /\ pc' = "idle"
    /\ last' = "stream_pending"
    /\ UNCHANGED <<machine, state, delay, log>>
    /\ attempt' = attempt + 1
    /\ UNCHANGED <<src, pos, counter0, out>>
    /\ UNCHANGED futureVars
    /\ UNCHANGED failed
    /\ UNCHANGED ioVars
StreamNotReady ==
    /\ InPollNext
    /\ state = "WaitingForStream"
    /\ ret' = Ret("Pending", 0, 0)
    /\ pc' = "idle"
    /\ last' = "stream_pending"
    /\ UNCHANGED <<machine, state, delay, log>>
    /\ UNCHANGED streamVars
    /\ UNCHANGED futureVars
    /\ UNCHANGED failed
    /\ UNCHANGED ioVars

\* let attempt = *this.attempt: the value captured at the top of the
\* iteration, before the arms below update the field.
CapturedAttempt_AfterUpdate == attempt'
CapturedAttempt == attempt

\* *this.attempt = 1
ResetAttempt_Keeps == attempt
ResetAttempt == 1

\* *this.attempt += 1
Incremented_ByTwo(a) == a + 2
Incremented(a) == a + 1

\* WaitingForStream: Some(Ok(x)).
StreamItemOk(x) ==
    /\ InPollNext
    /\ state = "WaitingForStream"
    /\ pos < Len(src)
    /\ src[pos + 1] = Item("Ok", x)
    /\ pos' = pos + 1
    /\ attempt' = ResetAttempt
    /\ log' = Append(log, Call("ok", CapturedAttempt, 0, Policy("none", 0), attempt'))
    /\ out' = Append(out, Ret("Ok", x, CapturedAttempt))
    /\ ret' = Ret("Ok", x, CapturedAttempt)
    /\ pc' = "idle"
    /\ last' = "stream_ok"
    /\ UNCHANGED <<machine, state, delay, src, counter0>>
    /\ UNCHANGED futureVars
    /\ UNCHANGED failed
    /\ UNCHANGED ioVars

\* WaitingForStream: None.
StreamEnd_NotifiesOk ==
    /\ InPollNext
    /\ state = "WaitingForStream"
    /\ pos = Len(src)
    /\ ret' = Ret("End", 0, 0)
    /\ pc' = "idle"
    /\ last' = "stream_end"
    /\ log' = Append(log, Call("ok", attempt, 0, Policy("none", 0), 1))
    /\ attempt' = 1
    /\ UNCHANGED <<machine, state, delay, src, pos, counter0, out>>
    /\ UNCHANGED futureVars
    /\ UNCHANGED failed
    /\ UNCHANGED ioVars
StreamEnd ==
    /\ InPollNext
    /\ state = "WaitingForStream"
    /\ pos = Len(src)
    /\ ret' = Ret("End", 0, 0)
    /\ pc' = "idle"
    /\ last' = "stream_end"
    /\ UNCHANGED <<machine, state, delay, log>>
    /\ UNCHANGED streamVars
    /\ UNCHANGED futureVars
    /\ UNCHANGED failed
    /\ UNCHANGED ioVars

\* RetryPolicy::ForwardError(e) => return Poll::Ready(Some(Err((e, attempt))))
StreamForwardError_BacksOff(f, a) ==
    /\ out' = Append(out, Ret("Err", f, a))
    /\ ret' = Ret("Err", f, a)
    /\ pc' = "idle"
    /\ last' = "stream_forward"
    /\ state' = "TimerActive"
    /\ delay' = "pending"
StreamForwardError(f, a) ==
    /\ out' = Append(out, Ret("Err", f, a))
    /\ ret' = Ret("Err", f, a)
    /\ pc' = "idle"
    /\ last' = "stream_forward"
    /\ UNCHANGED <<state, delay>>

\* RetryPolicy::Repeat => RetryState::WaitingForStream, and round the loop.
StreamRepeat_Emits(e, a) ==
    /\ state' = "WaitingForStream"
    /\ out' = Append(out, Ret("Err", e, a))
    /\ ret' = NoRet
    /\ pc' = "loop"
    /\ last' = "stream_repeat"
    /\ UNCHANGED delay
StreamRepeat(e, a) ==
    /\ state' = "WaitingForStream"
    /\ ret' = NoRet
    /\ pc' = "loop"
    /\ last' = "stream_repeat"
    /\ UNCHANGED <<out, delay>>

\* RetryPolicy::WaitRetry(duration) => RetryState::TimerActive { delay:
\* time::sleep(duration) }, and round the loop.
StreamWaitRetry ==
    /\ state' = "TimerActive"
    /\ delay' = "pending"
    /\ ret' = NoRet
    /\ pc' = "loop"
    /\ last' = "stream_wait"
    /\ UNCHANGED out

\* RetryPolicy::WaitRetry(duration) with no timer to be had: time::sleep
\* panics, after the counter was incremented and the handler called; the
\* state is not assigned.
StreamSleepFails ==
    /\ ret' = Ret("Panic", 0, 0)
    /\ pc' = "panic"
    /\ last' = "stream_sleep_panic"
    /\ UNCHANGED <<state, delay, out>>

\* WaitingForStream: Some(Err(e)); the handler answers `policy`.
StreamItemErr(e, policy) ==
    /\ InPollNext
    /\ state = "WaitingForStream"
    /\ pos < Len(src)
    /\ src[pos + 1] = Item("Err", e)
    /\ pos' = pos + 1
    /\ attempt' = Incremented(attempt)
    /\ log' = Append(log, Call("handle", CapturedAttempt, e, policy, attempt'))
    /\ CASE policy.p = "ForwardError" -> StreamForwardError(policy.e, CapturedAttempt)
         [] policy.p = "Repeat" -> StreamRepeat(e, CapturedAttempt)
         [] policy.p = "WaitRetry" -> (StreamWaitRetry \/ StreamSleepFails)
    /\ UNCHANGED <<machine, src, counter0>>
    /\ UNCHANGED futureVars
    /\ UNCHANGED failed
    /\ UNCHANGED ioVars

\* One iteration of the loop of StreamRetry::poll_next.
PollNext ==
    \/ StreamDelayPending
    \/ StreamDelayElapsed
    \/ StreamDelayError
    \/ StreamNotReady
    \/ \E x \in OkVals : StreamItemOk(x)
    \/ StreamEnd
    \/ \E e \in ErrVals, policy \in RetryPolicy : StreamItemErr(e, policy)

\* ------------------------------------------------------------ FutureRetry
\* The driver calls poll, or the loop inside a running call goes round;
\* poll has no guard of its own, so a driver may also poll a FutureRetry
\* that has returned a result or panicked.
InPoll ==
    /\ machine = "FutureRetry"
    /\ pc \in {"idle", "loop", "done", "panic"}

\* The driver takes one more result: the first one always, later ones (from
\* polls after a result or a panic) as long as products and results together
\* stay within MaxFutures.
MoreResults == Len(out) + Len(made) <= MaxFutures

\* The held future has already resolved, at an earlier poll.
Resolved ==
    \/ cur \in failed
    \/ \E i \in 1..Len(out) : out[i].kind = "Ok"

\* TimerActive: delay.poll() = Ok(Async::NotReady).
FutureDelayPending ==
    /\ InPoll
    /\ state = "TimerActive"
    /\ delay = "pending"
    /\ ret' = Ret("NotReady", 0, 0)
    /\ pc' = "idle"
    /\ last' = "delay_pending"
    /\ UNCHANGED <<machine, state, delay, log>>
    /\ UNCHANGED streamVars
    /\ UNCHANGED futureVars
    /\ UNCHANGED failed
    /\ UNCHANGED ioVars

\* TimerActive: delay.poll() = Ok(Async::Ready(())); a new future is made.
FutureDelayElapsed_Reuses(f) ==
    /\ InPoll
    /\ state = "TimerActive"
    /\ delay = "elapsed"
    /\ cur' = Len(made)
    /\ state' = "WaitingForFuture"
    /\ delay' = "none"
    /\ ret' = NoRet
    /\ pc' = "loop"
    /\ last' = "delay_elapsed"
    /\ UNCHANGED <<machine, log, made>>
    /\ UNCHANGED streamVars
    /\ UNCHANGED failed
    /\ UNCHANGED ioVars
FutureDelayElapsed(f) ==
    /\ InPoll
    /\ state = "TimerActive"
    /\ delay = "elapsed"
    /\ Len(made) < MaxFutures
    /\ made' = Append(made, f)
    /\ cur' = Len(made) + 1
    /\ state' = "WaitingForFuture"
    /\ delay' = "none"
    /\ ret' = NoRet
    /\ pc' = "loop"
    /\ last' = "delay_elapsed"
    /\ UNCHANGED <<machine, log>>
    /\ UNCHANGED streamVars
    /\ UNCHANGED failed
    /\ UNCHANGED ioVars

\* TimerActive: delay.poll() = Err(e): panic!("Timer error").
FutureDelayError_Returned ==
    /\ InPoll
    /\ state = "TimerActive"
    /\ delay = "error"
    /\ ret' = Ret("Err", 0, 0)
    /\ pc' = "done"
    /\ last' = "delay_error"
    /\ UNCHANGED <<machine, state, delay, log>>
    /\ UNCHANGED <<src, pos, counter0, attempt>>
    /\ MoreResults
    /\ out' = Append(out, ret')
    /\ UNCHANGED futureVars
    /\ UNCHANGED failed
    /\ UNCHANGED ioVars
FutureDelayError ==
    /\ InPoll
    /\ state = "TimerActive"
    /\ delay = "error"
    /\ ret' = Ret("Panic", 0, 0)
    /\ pc' = "panic"
    /\ last' = "delay_error"
    /\ UNCHANGED <<machine, state, delay, log>>
    /\ UNCHANGED <<src, pos, counter0, attempt>>
    /\ MoreResults
    /\ out' = Append(out, ret')
    /\ UNCHANGED futureVars
    /\ UNCHANGED failed
    /\ UNCHANGED ioVars

\* WaitingForFuture: future.poll() = Ok(Async::NotReady), returned as is.
FutureNotReady_Spins ==
    /\ InPoll
    /\ state = "WaitingForFuture"
    /\ ret' = NoRet
    /\ pc' = "loop"
    /\ last' = "future_pending"
    /\ UNCHANGED <<machine, state, delay, log>>
    /\ UNCHANGED streamVars
    /\ UNCHANGED futureVars
    /\ UNCHANGED failed
    /\ UNCHANGED ioVars
FutureNotReady ==
    /\ InPoll
    /\ state = "WaitingForFuture"
    /\ ret' = Ret("NotReady", 0, 0)
    /\ pc' = "idle"
    /\ last' = "future_pending"
    /\ UNCHANGED <<machine, state, delay, log>>
    /\ UNCHANGED streamVars
    /\ UNCHANGED futureVars
    /\ UNCHANGED failed
    /\ UNCHANGED ioVars

\* WaitingForFuture: future.poll() = Ok(Async::Ready(v)), returned as is.
FutureOk(v) ==
    /\ InPoll
    /\ state = "WaitingForFuture"
    /\ made[cur] = Item("Ok", v)
    /\ ret' = Ret("Ok", v, 0)
    /\ pc' = "done"
    /\ last' = "future_ok"
    /\ UNCHANGED <<machine, state, delay, log>>
    /\ UNCHANGED <<src, pos, counter0, attempt>>
    /\ MoreResults
    /\ out' = Append(out, ret')
    /\ UNCHANGED futureVars
    /\ UNCHANGED failed
    /\ UNCHANGED ioVars

\* WaitingForFuture: the held future was polled to its result before and is
\* polled again; a future such as futures::future::ok panics at that.
FuturePolledTwice ==
    /\ InPoll
    /\ state = "WaitingForFuture"
    /\ Resolved
    /\ MoreResults
    /\ ret' = Ret("Panic", 0, 0)
    /\ out' = Append(out, ret')
    /\ pc' = "panic"
    /\ last' = "future_twice"
    /\ UNCHANGED <<machine, state, delay, log>>
    /\ UNCHANGED <<src, pos, counter0, attempt>>
    /\ UNCHANGED futureVars
    /\ UNCHANGED failed
    /\ UNCHANGED ioVars

\* RetryPolicy::ForwardError(e) => return Err(e)
FutureForwardError_StartsTimer(e) ==
    /\ MoreResults
    /\ ret' = Ret("Err", e, 0)
    /\ out' = Append(out, Ret("Err", e, 0))
    /\ pc' = "done"
    /\ last' = "future_forward"
    /\ state' = "TimerActive"
    /\ delay' = "pending"
    /\ UNCHANGED <<made, cur>>
FutureForwardError(e) ==
    /\ MoreResults
    /\ ret' = Ret("Err", e, 0)
    /\ out' = Append(out, Ret("Err", e, 0))
    /\ pc' = "done"
    /\ last' = "future_forward"
    /\ UNCHANGED <<state, delay, made, cur>>

\* RetryPolicy::Repeat => RetryState::WaitingForFuture(self.factory.new()),
\* and round the loop.
FutureRepeat_Suspends(f) ==
    /\ Len(made) < MaxFutures
    /\ made' = Append(made, f)
    /\ cur' = Len(made) + 1
    /\ state' = "WaitingForFuture"
    /\ ret' = Ret("NotReady", 0, 0)
    /\ pc' = "idle"
    /\ last' = "future_repeat"
    /\ UNCHANGED <<delay, out>>
FutureRepeat(f) ==
    /\ Len(made) < MaxFutures
    /\ made' = Append(made, f)
    /\ cur' = Len(made) + 1
    /\ state' = "WaitingForFuture"
    /\ ret' = NoRet
    /\ pc' = "loop"
    /\ last' = "future_repeat"
    /\ UNCHANGED <<delay, out>>

\* RetryPolicy::WaitRetry(duration) => RetryState::TimerActive(Delay::new(
\* Instant::now() + duration)); the failed future is dropped with the old
\* state; and round the loop.
FutureWaitRetry ==
    /\ state' = "TimerActive"
    /\ delay' = "pending"
    /\ cur' = 0
    /\ ret' = NoRet
    /\ pc' = "loop"
    /\ last' = "future_wait"
    /\ UNCHANGED <<made, out>>

\* RetryPolicy::WaitRetry(duration) with a duration the clock cannot take:
\* `Instant::now() + duration` panics while the new state is being built,
\* before `self.state = new_state`; the state still holds the failed future.
FutureInstantOverflows ==
    /\ MoreResults
    /\ ret' = Ret("Panic", 0, 0)
    /\ out' = Append(out, ret')
    /\ pc' = "panic"
    /\ last' = "future_wait_panic"
    /\ UNCHANGED <<state, delay, made, cur>>

\* WaitingForFuture: future.poll() = Err(e); the handler answers `policy`;
\* `f` is what the factory produces if it is asked.
FutureErr(e, policy, f) ==
    /\ InPoll
    /\ state = "WaitingForFuture"
    /\ made[cur] = Item("Err", e)
    /\ log' = Append(log, Call("handle", 0, e, policy, 0))
    /\ CASE policy.p = "ForwardError" -> FutureForwardError(policy.e)
         [] policy.p = "Repeat" -> FutureRepeat(f)
         [] policy.p = "WaitRetry" ->
                IF policy.e = Duration_MAX
                    THEN FutureInstantOverflows
                    ELSE FutureWaitRetry
    /\ UNCHANGED machine
    /\ UNCHANGED <<src, pos, counter0, attempt>>
    /\ failed' = failed \cup {cur}
    /\ UNCHANGED ioVars

\* One iteration of the loop of FutureRetry::poll.
Poll ==
    \/ FutureDelayPending
    \/ \E f \in FutureOutcomes : FutureDelayElapsed(f)
    \/ FutureDelayError
    \/ FutureNotReady
    \/ \E v \in FutureOkVals : FutureOk(v)
    \/ FuturePolledTwice
    \/ \E e \in FutureErrVals, policy \in FutureRetryPolicy, f \in FutureOutcomes :
           FutureErr(e, policy, f)

\* -------------------------------------------------------------- IoHandler
\* The bundled handler of examples/tcp-listener-complex.rs.  Durations are
\* whole milliseconds; the f32 arithmetic is done in fixed point, Scale units
\* to one.
MIN_WAIT_MSEC == 5
MAX_WAIT_MSEC == 1000
Scale == 10000
FRAC_2_PI == 6366
FRAC_DIFF == Scale \div (MAX_WAIT_MSEC - MIN_WAIT_MSEC)

\* f32::atan of a whole number x >= 0, in Scale units, rounded to the
\* nearest unit: a table up to 3, then pi/2 - 1/x + 1/(3 x^3) - 1/(5 x^5)
\* computed in units of 1/(Scale * Scale) (the arctangent to four places for
\* every x from 4 to 6833).
Atan(x) ==
    CASE x = 0 -> 0
      [] x = 1 -> 7854
      [] x = 2 -> 11071
      [] x = 3 -> 12490
      [] OTHER ->
           (157079633 - ((Scale * Scale) \div x)
                      + ((Scale * Scale) \div (3 * x * x * x))
                      - ((Scale * Scale) \div (5 * x * x * x * x * x))
                      + (Scale \div 2)) \div Scale

\* f32::round, then `as u64`.
Round(v) == (v + (Scale \div 2)) \div Scale

\* IoHandler::calculate_wait_duration, for current_attempt = n.
calculate_wait_duration_Unscaled(n) ==
    Round(MIN_WAIT_MSEC * Scale + Atan(n - 1) * (MAX_WAIT_MSEC - MIN_WAIT_MSEC))
calculate_wait_duration(n) ==
    Round(MIN_WAIT_MSEC * Scale
            + (((Atan(n - 1) * FRAC_2_PI) \div Scale) * FRAC_DIFF) \div Scale)

\* io::ErrorKind values; the first six are the ones handle() retries at once.
RepeatKinds ==
    {"Interrupted", "ConnectionRefused", "ConnectionReset",
     "ConnectionAborted", "NotConnected", "BrokenPipe"}
ErrorKinds == RepeatKinds \cup {"PermissionDenied", "TimedOut"}

\* IoHandler::handle(e), e of kind k.
IoHandle_OffByOne(k) ==
    /\ machine = "IoHandler"
    /\ current_attempt < MaxHandled
    /\ current_attempt' = current_attempt + 1
    /\ answer' =
         IF current_attempt' >= max_attempts THEN Policy("ForwardError", k)
         ELSE IF k \in RepeatKinds THEN Policy("Repeat", 0)
         ELSE IF k = "PermissionDenied" THEN Policy("ForwardError", k)
         ELSE Policy("WaitRetry", calculate_wait_duration(current_attempt'))
    /\ last' = "io_handle"
    /\ UNCHANGED <<machine, state, delay, log, ret, pc, failed, max_attempts>>
    /\ UNCHANGED streamVars
    /\ UNCHANGED futureVars
IoHandle(k) ==
    /\ machine = "IoHandler"
    /\ current_attempt < MaxHandled
    /\ current_attempt' = current_attempt + 1
    /\ answer' =
         IF current_attempt' > max_attempts THEN Policy("ForwardError", k)
         ELSE IF k \in RepeatKinds THEN Policy("Repeat", 0)
         ELSE IF k = "PermissionDenied" THEN Policy("ForwardError", k)
         ELSE Policy("WaitRetry", calculate_wait_duration(current_attempt'))
    /\ last' = "io_handle"
    /\ UNCHANGED <<machine, state, delay, log, ret, pc, failed, max_attempts>>
    /\ UNCHANGED streamVars
    /\ UNCHANGED futureVars

\* IoHandler::ok()
IoOk ==
    /\ machine = "IoHandler"
    /\ current_attempt' = 0
    /\ answer' = Policy("none", 0)
    /\ last' = "io_ok"
    /\ UNCHANGED <<machine, state, delay, log, ret, pc, failed, max_attempts>>
    /\ UNCHANGED streamVars
    /\ UNCHANGED futureVars

\* ------------------------------------------------------------ environment
\* The duration of the pending timer passes.
TimerElapses ==
    /\ delay = "pending"
    /\ delay' = "elapsed"
    /\ UNCHANGED <<machine, state, log, ret, pc, last>>
    /\ UNCHANGED streamVars
    /\ UNCHANGED futureVars
    /\ UNCHANGED failed
    /\ UNCHANGED ioVars

\* The timer fails: the tokio_timer::Delay of FutureRetry answers Err
\* (tokio_timer::Error), the Sleep of StreamRetry loses its runtime.
TimerFails ==
    /\ delay = "pending"
    /\ delay' = "error"
    /\ UNCHANGED <<machine, state, log, ret, pc, last>>
    /\ UNCHANGED streamVars
    /\ UNCHANGED futureVars
    /\ UNCHANGED failed
    /\ UNCHANGED ioVars

\* The Delay of FutureRetry, polled again after the poll that panicked on its
\* error, answers NotReady or Ready.
TimerRecovers ==
    /\ machine = "FutureRetry"
    /\ pc = "panic"
    /\ delay = "error"
    /\ delay' \in {"pending", "elapsed"}
    /\ UNCHANGED <<machine, state, log, ret, pc, last>>
    /\ UNCHANGED streamVars
    /\ UNCHANGED futureVars
    /\ UNCHANGED failed
    /\ UNCHANGED ioVars

Next ==
    \/ PollNext
    \/ Poll
    \/ TimerElapses
    \/ TimerFails
    \/ TimerRecovers
    \/ \E k \in ErrorKinds : IoHandle(k)
    \/ IoOk

Spec == Init /\ [][Next]_vars

\* ------------------------------------------------- reading the histories
IsStream == machine = "StreamRetry"
IsFuture == machine = "FutureRetry"

Handles == SelectSeq(log, LAMBDA c : c.op = "handle")
Oks == SelectSeq(log, LAMBDA c : c.op = "ok")
OutOks == SelectSeq(out, LAMBDA r : r.kind = "Ok")
OutErrs == SelectSeq(out, LAMBDA r : r.kind = "Err")

\* The handler has so far answered every failure with ...
AlwaysForwardError ==
    \A i \in 1..Len(Handles) :
        Handles[i].policy = Policy("ForwardError", Handles[i].err)
AlwaysRepeat == \A i \in 1..Len(Handles) : Handles[i].policy.p = "Repeat"
AlwaysWaitRetry == \A i \in 1..Len(Handles) : Handles[i].policy.p = "WaitRetry"

IsPrefix(s, t) == Len(s) <= Len(t) /\ SubSeq(t, 1, Len(s)) = s

\* ---------------------------------------------------------------- C1
ScenarioC ==
    /\ IsStream
    /\ src = <<Item("Err", 17), Item("Ok", 19)>>
    /\ counter0 = 1
    /\ AlwaysForwardError

\* C1 as stated: new over [Err(17), Ok(19)] with an always-ForwardError
\* handler emits (17, 1), then (19, 1), then propagates the end of the source.
C1_AsStated ==
    ScenarioC =>
        /\ IsPrefix(out, <<Ret("Err", 17, 1), Ret("Ok", 19, 1)>>)
        /\ ret.kind = "End" => Len(out) = 2

\* C1 amended: new over [Err(17), Ok(19)] with an always-ForwardError handler
\* emits the error element (17, 1) first, then the success element (19, 2)
\* (the forwarded failure still counts as an attempt), and reports the end of
\* the source only after both.
C1_ForwardThenSuccess ==
    ScenarioC =>
        /\ IsPrefix(out, <<Ret("Err", 17, 1), Ret("Ok", 19, 2)>>)
        /\ Len(out) = pos
        /\ ret.kind = "End" => Len(out) = 2

C1_Witness ==
    /\ ScenarioC
    /\ out = <<Ret("Err", 17, 1), Ret("Ok", 19, 2)>>
    /\ ret.kind = "End"

\* ---------------------------------------------------------------- C2
\* C2: FutureRetry notifies the handler's ok() exactly once before it
\* returns a success value.
C2_OkNotifiedOnSuccess ==
    (IsFuture /\ pc = "done" /\ ret.kind = "Ok") => Len(Oks) = 1

\* ---------------------------------------------------------------- C3
\* Position in src of the j-th success item, and of the success before i.
OkPositions == {i \in 1..Len(src) : src[i].kind = "Ok"}
OkIndex(j) == CHOOSE i \in OkPositions : Cardinality({k \in OkPositions : k <= i}) = j
PrevOk(i) ==
    IF \E k \in OkPositions : k < i
    THEN CHOOSE k \in OkPositions : k < i /\ \A m \in OkPositions : m < i => m <= k
    ELSE 0
\* Consecutive failures immediately before item i.
FailuresBefore(i) == i - 1 - PrevOk(i)
\* The counter's value when that run of failures began.
RunStart(i) == IF PrevOk(i) = 0 THEN counter0 ELSE 1

OkCallsMatchSuccesses ==
    /\ Len(Oks) = Len(OutOks)
    /\ Len(OutOks) = Cardinality({k \in OkPositions : k <= pos})
    /\ \A j \in 1..Len(OutOks) : Oks[j].attempt = OutOks[j].attempt

\* C3 as stated, read for the wrappers built with a counter >= 1: ok(a) is
\* called once per emitted success, and a, the tag of that element, is 1 plus
\* the number of consecutive failures before it.
C3_AsStated ==
    (IsStream /\ counter0 >= 1) =>
        /\ OkCallsMatchSuccesses
        /\ \A j \in 1..Len(OutOks) :
               OutOks[j].attempt = 1 + FailuresBefore(OkIndex(j))

\* C3 amended: ok(a) is called exactly once per emitted success element and
\* never otherwise, and a, which is also the element's tag, is the number of
\* consecutive failures immediately before that success plus 1 if a success
\* came before them, plus the counter given at construction (1 for new) if
\* none did.
C3_OkOncePerSuccess ==
    IsStream =>
        /\ OkCallsMatchSuccesses
        /\ \A j \in 1..Len(OutOks) :
               OutOks[j].attempt
                   = RunStart(OkIndex(j)) + FailuresBefore(OkIndex(j))

C3_Witness ==
    /\ IsStream
    /\ counter0 = 2
    /\ Len(OutOks) = 2
    /\ OutOks[1].attempt = 3
    /\ OutOks[2].attempt = 1
    /\ Len(Oks) = 2

\* ---------------------------------------------------------------- C4
\* C4: however the wrapper was constructed, the attempt counter is >= 1 in
\* every state, and it is 1 right after a success is recorded.
C4_CounterAtLeastOne ==
    IsStream =>
        /\ attempt >= 1
        /\ last = "stream_ok" => attempt = 1

\* ---------------------------------------------------------------- C5
\* A step that takes a failure from the source.
TakesFailure == IsStream /\ pos' = pos + 1 /\ src[pos'].kind = "Err"
NewCall == log'[Len(log')]

\* C5: on each source failure the counter goes up by exactly 1 before the
\* handler is consulted, the handler is consulted once with the value k the
\* counter had before, and a ForwardError(e) answer emits exactly (e, k).
C5_FailureCountedThenHandled ==
    [][TakesFailure =>
          /\ attempt' = attempt + 1
          /\ Len(log') = Len(log) + 1
          /\ NewCall.op = "handle"
          /\ NewCall.attempt = attempt
          /\ NewCall.err = src[pos'].val
          /\ NewCall.counter = attempt + 1
          /\ NewCall.policy.p = "ForwardError" =>
                 /\ out' = Append(out, Ret("Err", NewCall.policy.e, attempt))
                 /\ ret' = Ret("Err", NewCall.policy.e, attempt)]_vars

C5_Witness ==
    /\ IsStream
    /\ last = "stream_forward"
    /\ Len(Handles) = 2
    /\ Handles[2].attempt = 3
    /\ Handles[2].err = 17
    /\ Handles[2].policy.e = 2
    /\ out[Len(out)] = Ret("Err", 2, 3)
    /\ attempt = 4

\* ---------------------------------------------------------------- C6
Forwards == TakesFailure /\ NewCall.policy.p = "ForwardError"
SourcePolls ==
    {"stream_pending", "stream_ok", "stream_end",
     "stream_forward", "stream_repeat", "stream_wait", "stream_sleep_panic"}

\* C6: a ForwardError decision emits exactly one error element and leaves
\* the machine in WaitingForStream with no timer; the poll after it polls the
\* source again, and the end is reported only when the source has ended.
C6_ForwardKeepsListening ==
    [][IsStream =>
          /\ Forwards =>
                 /\ Len(out') = Len(out) + 1
                 /\ out'[Len(out')].kind = "Err"
                 /\ state' = "WaitingForStream"
                 /\ delay' = "none"
                 /\ pc' = "idle"
                 /\ pos' = pos + 1
          /\ last = "stream_forward" => last' \in SourcePolls
          /\ ret'.kind = "End" => pos' = Len(src)]_vars

C6_Witness ==
    /\ IsStream
    /\ Len(out) = 3
    /\ out[1].kind = "Err"
    /\ out[2].kind = "Ok"
    /\ out[3].kind = "Err"
    /\ ret.kind = "End"

\* ---------------------------------------------------------------- C7
\* What the items src[i..pos] must have put out, given the handler's answers
\* from the (h+1)-th on: kind and value of each element, in order.
RECURSIVE Emitted(_, _)
Emitted(i, h) ==
    IF i > pos THEN <<>>
    ELSE IF src[i].kind = "Ok"
         THEN <<Item("Ok", src[i].val)>> \o Emitted(i + 1, h)
         ELSE IF h < Len(Handles) /\ Handles[h + 1].policy.p = "ForwardError"
              THEN <<Item("Err", Handles[h + 1].policy.e)>> \o Emitted(i + 1, h + 1)
              ELSE Emitted(i + 1, h + 1)

OutItems == [i \in 1..Len(out) |-> Item(out[i].kind, out[i].val)]

ScenarioA ==
    /\ IsStream
    /\ src = <<Item("Ok", 1), Item("Err", 17), Item("Ok", 19)>>
    /\ counter0 = 1
    /\ AlwaysRepeat

\* C7: failures answered Repeat or WaitRetry put nothing out; the error
\* elements are exactly the forwarded failures and the success elements
\* exactly the source's successes, in source order, once each.  New over
\* [Ok(1), Err(17), Ok(19)] with always-Repeat emits [(1,1), (19,2)].
C7_OnlyForwardedFailuresEmitted ==
    IsStream =>
        /\ OutItems = Emitted(1, 0)
        /\ (ScenarioA /\ ret.kind = "End") =>
               out = <<Ret("Ok", 1, 1), Ret("Ok", 19, 2)>>

C7_Witness ==
    /\ ScenarioA
    /\ ret.kind = "End"
    /\ out = <<Ret("Ok", 1, 1), Ret("Ok", 19, 2)>>

C7_WitnessMixed ==
    /\ IsStream
    /\ Len(Handles) = 3
    /\ Handles[1].policy.p = "WaitRetry"
    /\ Handles[2].policy.p = "ForwardError"
    /\ Handles[3].policy.p = "Repeat"
    /\ Len(out) = 1

\* ---------------------------------------------------------------- C8
Decides(p) ==
    /\ Len(log') = Len(log) + 1
    /\ NewCall.op = "handle"
    /\ NewCall.policy.p = p
FuturePolls ==
    {"future_pending", "future_ok", "future_forward", "future_repeat", "future_wait",
     "future_wait_panic"}

\* C8: in both machines a Repeat decision creates no timer and does not enter
\* TimerActive; the poll call goes on without returning, and its next step
\* is the next attempt: the source polled again, or the future the factory
\* has just made polled.
C8_RepeatWithoutSuspension ==
    [][/\ Decides("Repeat") =>
              /\ state' \in {"WaitingForStream", "WaitingForFuture"}
              /\ delay = "none" /\ delay' = "none"
              /\ pc' = "loop"
              /\ ret' = NoRet
              /\ IsFuture => (Len(made') = Len(made) + 1 /\ cur' = Len(made'))
       /\ last = "stream_repeat" => (pc = "loop" /\ last' \in SourcePolls)
       /\ last = "future_repeat" =>
              (pc = "loop" /\ last' \in FuturePolls /\ cur = Len(made))]_vars

C8_Witness ==
    /\ IsFuture
    /\ made = <<Item("Err", 2), Item("Ok", 3)>>
    /\ AlwaysRepeat
    /\ Len(Handles) = 1
    /\ ret = Ret("Ok", 3, 0)

C8_WitnessStream ==
    /\ IsStream
    /\ AlwaysRepeat
    /\ Len(Handles) = 2
    /\ last = "stream_ok"

\* ---------------------------------------------------------------- C9
\* C9: in both machines, after a WaitRetry decision the machine is in
\* TimerActive with a pending timer; until the timer has elapsed no step makes a future,
\* polls a future or the source, or calls the handler, and a poll that finds
\* the timer pending returns not ready; TimerActive is left only by a poll
\* that finds the timer elapsed.
C9_NoAttemptBeforeTimerElapsed ==
    [][/\ Decides("WaitRetry") => (state' = "TimerActive" /\ delay' = "pending")
       /\ (state = "TimerActive" /\ delay # "elapsed") =>
              /\ UNCHANGED <<made, cur, pos, log, attempt, state>>
              /\ IsStream => UNCHANGED out
              /\ last' \in {last, "delay_pending", "delay_error"}
       /\ (state = "TimerActive" /\ delay = "pending" /\ delay' = "pending") =>
              /\ ret'.kind \in {"Pending", "NotReady"}
              /\ pc' = "idle"
       /\ (state = "TimerActive" /\ state' # "TimerActive") =>
              /\ delay = "elapsed"
              /\ last' = "delay_elapsed"]_vars

\* ---------------------------------------------------------------- C10
Count(p) == Len(SelectSeq(Handles, LAMBDA c : c.policy.p = p))
\* Timers the machine has started: the WaitRetry answers whose duration
\* the clock could take.
TimersStarted ==
    Len(SelectSeq(Handles, LAMBDA c : c.policy.p = "WaitRetry" /\ c.policy.e # Duration_MAX))
TimersElapsed == TimersStarted - (IF state = "TimerActive" THEN 1 ELSE 0)

ScenarioD ==
    /\ IsFuture
    /\ Len(made) >= 2
    /\ made[1] = Item("Err", 2)
    /\ made[2] = Item("Ok", 3)
    /\ AlwaysRepeat
    /\ pc = "done"

\* C10: the factory is called once at construction and once for each failure
\* answered Repeat and each timer found elapsed, and at no other time; a run
\* of k retried failures and then a success has called it k + 1 times; a
\* failing then a succeeding future under always-Repeat gives 3 with the
\* factory called twice.
C10_FactoryOncePerRetry ==
    IsFuture =>
        /\ Len(made) = 1 + Count("Repeat") + TimersElapsed
        /\ (pc = "done" /\ ret.kind = "Ok") =>
               Len(made) = Count("Repeat") + TimersStarted + 1
        /\ ScenarioD => (ret = Ret("Ok", 3, 0) /\ Len(made) = 2)

C10_Witness ==
    /\ ScenarioD
    /\ ret = Ret("Ok", 3, 0)
    /\ Len(made) = 2

C10_WitnessWait ==
    /\ IsFuture
    /\ Len(made) = 3
    /\ Count("WaitRetry") = 1
    /\ Count("Repeat") = 1
    /\ pc = "done"
    /\ ret.kind = "Ok"

\* ---------------------------------------------------------------- C11
LastHandle == Handles[Len(Handles)]

\* C11: the first result of FutureRetry is either the value of the future
\* that resolved Ok, or exactly the error of the handler's ForwardError(e)
\* for the first failure it forwards; a ForwardError decision ends the poll
\* at once, with no call of the factory and no timer, whatever the factory
\* would have produced next.
C11_TerminalOutcome ==
    [][IsFuture =>
          /\ Decides("ForwardError") =>
                 /\ ret' = Ret("Err", NewCall.policy.e, 0)
                 /\ pc' = "done"
                 /\ UNCHANGED <<made, cur, state, delay>>
                 /\ delay = "none"
          /\ (out = <<>> /\ pc' = "done") =>
                 /\ out' = <<ret'>>
                 /\ \/ /\ ret'.kind = "Ok"
                       /\ made'[cur'] = Item("Ok", ret'.val)
                       /\ log' = log
                       /\ Count("ForwardError") = 0
                    \/ /\ ret'.kind = "Err"
                       /\ Decides("ForwardError")
                       /\ Count("ForwardError") = 0
          /\ (out = <<>> /\ out' = <<>>) => pc' # "done"]_vars

C11_Witness ==
    /\ IsFuture
    /\ pc = "done"
    /\ ret = Ret("Err", 17, 0)
    /\ out = <<Ret("Err", 17, 0)>>
    /\ Len(Handles) = 2
    /\ Handles[1].policy.p = "WaitRetry"
    /\ LastHandle.policy = Policy("ForwardError", 17)
    /\ LastHandle.err = 2
    /\ Len(made) = 2

\* ---------------------------------------------------------------- C12
\* A step that polls the future held by WaitingForFuture.
PollsFuture == IsFuture /\ state = "WaitingForFuture" /\ vars' # vars

\* C12: a future that has returned a failure is never polled again, and
\* after a failure the stored future is always replaced, by a fresh product
\* of the factory or by a timer, whatever the handler decided.
C12_FailedFutureNeverPolledAgain ==
    [][/\ PollsFuture => cur \notin failed
       /\ (IsFuture /\ Len(log') = Len(log) + 1) =>
              \/ (state' = "WaitingForFuture" /\ cur' \notin failed')
              \/ (state' = "TimerActive" /\ cur' = 0)]_vars

\* ---------------------------------------------------------------- C13
\* C13: a timer failure found by FutureRetry in TimerActive aborts with a
\* panic: the handler is not called, the factory makes nothing, no retry
\* follows and no ordinary result is returned.
C13_TimerFailureIsFatal ==
    [][/\ (IsFuture /\ state = "TimerActive" /\ delay = "error" /\ delay' = "error") =>
              /\ pc' = "panic"
              /\ ret' = Ret("Panic", 0, 0)
              /\ UNCHANGED <<log, made, cur, state, delay, failed>>
       /\ (IsFuture /\ out = <<>> /\ ret'.kind = "Panic") =>
              \/ (state = "TimerActive" /\ delay = "error")
              \/ (Decides("WaitRetry") /\ NewCall.policy.e = Duration_MAX)
       /\ (IsFuture /\ delay = "error") => UNCHANGED <<log, made, cur, state>>]_vars

C13_Witness ==
    /\ IsFuture
    /\ pc = "panic"
    /\ ret.kind = "Panic"
    /\ out = <<Ret("Panic", 0, 0)>>
    /\ delay = "error"
    /\ Len(Handles) = 2
    /\ Len(made) = 2

\* ---------------------------------------------------------------- C14
\* C14: when the wrapped stream ends, poll_next returns the end in that same
\* poll without calling handle or ok, without touching the attempt counter
\* and without starting a timer.
C14_EndPropagatedUntouched ==
    [][/\ (IsStream /\ state = "WaitingForStream" /\ pos = Len(src)) =>
              /\ ret'.kind \in {"End", "Pending"}
              /\ pc' = "idle"
              /\ UNCHANGED <<log, attempt, state, delay, out, pos>>
       /\ (IsStream /\ ret'.kind = "End") =>
              (state = "WaitingForStream" /\ pos = Len(src))]_vars

C14_Witness ==
    /\ IsStream
    /\ ret.kind = "End"
    /\ last = "stream_end"
    /\ attempt = 3
    /\ Len(log) = 3
    /\ state = "WaitingForStream"
    /\ delay = "none"

\* ---------------------------------------------------------------- C15
\* C15: the wait computed by calculate_wait_duration is non-decreasing in
\* the attempt number n and strictly below MAX_WAIT_MSEC for every n >= 1;
\* every WaitRetry answer of the IoHandler carries that wait for its attempt.
C15_BackoffMonotoneBelowCeiling ==
    (machine = "IoHandler" /\ answer.p = "WaitRetry") =>
        /\ current_attempt >= 1
        /\ answer.e = calculate_wait_duration(current_attempt)
        /\ answer.e < MAX_WAIT_MSEC
        /\ answer.e >= MIN_WAIT_MSEC
        /\ \A n \in 1..current_attempt :
               /\ calculate_wait_duration(n) <= answer.e
               /\ \A m \in 1..n :
                      calculate_wait_duration(m) <= calculate_wait_duration(n)

C15_Witness ==
    /\ machine = "IoHandler"
    /\ answer.p = "WaitRetry"
    /\ answer.e = 5
    /\ current_attempt = 10
    /\ max_attempts = MaxHandled

\* ---------------------------------------------------------------- C16
\* C16: in every reachable state FutureRetry is in exactly one of
\* WaitingForFuture, holding one live future (one that has not returned a
\* failure) and no timer, or TimerActive, holding one timer that has not
\* failed and no future; never both, never neither.  A timer that has
\* elapsed and was not polled since counts as pending.
C16_ExactlyOneResource ==
    IsFuture =>
        /\ \/ /\ state = "WaitingForFuture"
              /\ cur \in 1..Len(made)
              /\ cur \notin failed
              /\ delay = "none"
           \/ /\ state = "TimerActive"
              /\ cur = 0
              /\ delay \in {"pending", "elapsed"}
        /\ Len(made) >= 1

\* ---------------------------------------------------------------- C17
\* The timer of a TimerActive state changes by itself: no poll is involved.
TimerStep ==
    /\ delay = "pending"
    /\ delay' \in {"elapsed", "error"}
    /\ UNCHANGED <<pc, ret, last, log>>

PendingArms == {"future_pending", "stream_pending", "delay_pending"}

\* C17: a poll that finds its inner resource pending returns not ready and
\* changes nothing: the same future stays held, no factory call, no handler
\* call, the attempt counter and the state stay as they are; a poll of either
\* machine in TimerActive with the timer pending keeps the state and the
\* timer and returns not ready.
C17_PendingChangesNothing ==
    [][/\ (~TimerStep /\ last' \in PendingArms /\ ret'.kind # "none") =>
              /\ ret' = Ret(IF IsFuture THEN "NotReady" ELSE "Pending", 0, 0)
              /\ pc' = "idle"
              /\ UNCHANGED <<state, delay, made, cur, log, failed>>
              /\ UNCHANGED streamVars
       /\ (~TimerStep /\ state = "TimerActive" /\ delay = "pending") =>
              /\ ret'.kind \in {"Pending", "NotReady"}
              /\ last' = "delay_pending"
              /\ UNCHANGED <<state, delay>>
       /\ ret'.kind \in {"Pending", "NotReady"} => last' \in PendingArms]_vars

C17_Witness ==
    /\ IsFuture
    /\ last = "future_pending"
    /\ ret.kind = "NotReady"
    /\ cur = 2
    /\ Len(made) = 2
    /\ Len(Handles) = 1

C17_WitnessStream ==
    /\ IsStream
    /\ last = "stream_pending"
    /\ ret.kind = "Pending"
    /\ attempt = 3
    /\ Len(log) = 2

C17_WitnessTimer ==
    /\ last = "delay_pending"
    /\ state = "TimerActive"
    /\ delay = "pending"
    /\ ret.kind \in {"Pending", "NotReady"}

\* ---------------------------------------------------------------- C18
RECURSIVE ExpectedOut(_, _, _)
\* What the source items up to pos give out, from the items, the start
\* value of the counter and the failures forwarded alone: `i` is the item,
\* `h` the number of handle calls before it, `a` the attempt counter.
ExpectedOut(i, h, a) ==
    IF i > pos THEN <<>>
    ELSE IF src[i].kind = "Ok"
         THEN <<Ret("Ok", src[i].val, a)>> \o ExpectedOut(i + 1, h, 1)
         ELSE IF Handles[h + 1].policy.p = "ForwardError"
              THEN <<Ret("Err", Handles[h + 1].policy.e, a)>>
                       \o ExpectedOut(i + 1, h + 1, a + 1)
              ELSE ExpectedOut(i + 1, h + 1, a + 1)

RECURSIVE ExpectedCalls(_, _)
\* The handle/ok calls and their attempt arguments, from the items alone.
ExpectedCalls(i, a) ==
    IF i > pos THEN <<>>
    ELSE IF src[i].kind = "Ok"
         THEN <<<<"ok", a, 0>>>> \o ExpectedCalls(i + 1, 1)
         ELSE <<<<"handle", a, src[i].val>>>> \o ExpectedCalls(i + 1, a + 1)

LogCalls == [j \in 1..Len(log) |-> <<log[j].op, log[j].attempt, log[j].err>>]

ScenarioB ==
    /\ IsStream
    /\ src = <<Item("Err", 17), Item("Ok", 19)>>
    /\ counter0 = 1
    /\ ret.kind = "End"

\* C18: what StreamRetry emits (values and attempt tags) and the handle/ok
\* calls it makes (with their attempt arguments) are a function of the source
\* items and of which failures are forwarded; whether a retried failure was
\* answered Repeat or WaitRetry makes no difference.  [Err(17), Ok(19)]
\* emits [(19, 2)] under always-Repeat and under always-WaitRetry.
C18_RepeatAndWaitRetryAgree ==
    IsStream =>
        /\ out = ExpectedOut(1, 0, counter0)
        /\ LogCalls = ExpectedCalls(1, counter0)
        /\ (ScenarioB /\ (AlwaysRepeat \/ AlwaysWaitRetry)) =>
               /\ out = <<Ret("Ok", 19, 2)>>
               /\ LogCalls = <<<<"handle", 1, 17>>, <<"ok", 2, 0>>>>

C18_Witness ==
    /\ ScenarioB
    /\ AlwaysWaitRetry
    /\ Len(Handles) = 1
    /\ out = <<Ret("Ok", 19, 2)>>

C18_WitnessRepeat ==
    /\ ScenarioB
    /\ AlwaysRepeat
    /\ Len(Handles) = 1
    /\ out = <<Ret("Ok", 19, 2)>>

C18_WitnessMixed ==
    /\ IsStream
    /\ Len(Handles) = 2
    /\ Handles[1].policy.p = "Repeat"
    /\ Handles[2].policy.p = "WaitRetry"
    /\ Len(out) = 1
    /\ out[1].attempt = 3

\* ---------------------------------------------------------------- C19
\* A handler with a ceiling: it answers ForwardError at the latest for the
\* failure after HandlerBudget retried ones.
HandlerBudget == MaxFutures - 1

FutureErrWithin(e, policy, f) ==
    /\ policy.p # "ForwardError" => Len(Handles) < HandlerBudget
    /\ FutureErr(e, policy, f)

\* The held future resolves, to a success or to a failure the handler sees.
FutureResolves ==
    \/ \E v \in FutureOkVals : FutureOk(v)
    \/ \E e \in FutureErrVals, policy \in FutureRetryPolicy, f \in FutureOutcomes :
           FutureErrWithin(e, policy, f)

\* The driver polls again and finds the timer elapsed.
FutureRetriesAfterWait == \E f \in FutureOutcomes : FutureDelayElapsed(f)

LiveInit == Init /\ machine = "FutureRetry"

\* FutureRetry with a handler that has a ceiling and a timer that works.
LiveNext ==
    \/ FutureDelayPending
    \/ FutureRetriesAfterWait
    \/ FutureNotReady
    \/ FutureResolves
    \/ FuturePolledTwice
    \/ TimerElapses

\* Every future resolves, every timer elapses, the driver keeps polling.
LiveSpec ==
    /\ LiveInit
    /\ [][LiveNext]_vars
    /\ WF_vars(FutureResolves)
    /\ WF_vars(TimerElapses)
    /\ WF_vars(FutureRetriesAfterWait)

FirstForward ==
    CHOOSE i \in 1..Len(Handles) :
        /\ Handles[i].policy.p = "ForwardError"
        /\ \A j \in 1..(i - 1) : Handles[j].policy.p # "ForwardError"

\* C19: with a handler that forwards after at most HandlerBudget retried
\* failures, futures that resolve, timers that elapse and a driver that keeps
\* polling, FutureRetry reaches a first result; that result is a success or
\* the first forwarded error, never the effect of a count of attempts of its
\* own.
C19_TerminatesUnderBoundedHandler ==
    /\ <>(out # <<>>)
    /\ [](out # <<>> =>
              \/ /\ out[1].kind = "Ok"
                 /\ \E i \in 1..Len(made) : made[i] = Item("Ok", out[1].val)
              \/ /\ out[1].kind = "Err"
                 /\ Count("ForwardError") >= 1
                 /\ Handles[FirstForward].policy = Policy("ForwardError", out[1].val))
    /\ [](out = <<>> => (pc # "done" /\ Count("ForwardError") = 0))

\* ---------------------------------------------------------------- C20
ReturningArms ==
    PendingArms \cup
        {"stream_ok", "stream_end", "stream_forward", "future_ok", "future_forward"}

\* C20 as stated: the loop inside a poll goes round only after a Repeat
\* decision or an elapsed timer.
C20_AsStated ==
    [][(pc' = "loop" /\ ~TimerStep) =>
          \/ Decides("Repeat")
          \/ (state = "TimerActive" /\ delay = "elapsed")]_vars

\* C20 amended: the loop inside a poll goes round only after a Repeat
\* decision, after a WaitRetry decision (the timer just started is polled in
\* the same call) or after an elapsed timer; each round takes one failure or
\* one elapsed timer; the poll returns as soon as the inner resource or the
\* timer is pending, a success or the end is seen or ForwardError is decided.
C20_LoopOnlyAcrossRetries ==
    [][/\ (pc' = "loop" /\ ~TimerStep) =>
              \/ Decides("Repeat")
              \/ Decides("WaitRetry")
              \/ (state = "TimerActive" /\ delay = "elapsed" /\ log' = log)
       /\ (~TimerStep /\ last' \in ReturningArms /\ ret'.kind # "none") =>
              /\ pc' \in {"idle", "done"}
              /\ ret' # NoRet
       /\ Decides("ForwardError") => pc' \in {"idle", "done"}
       /\ (~TimerStep /\ state = "TimerActive" /\ delay = "pending") => pc' = "idle"
       /\ (~TimerStep /\ pc = "loop" /\ last \in {"stream_wait", "future_wait"}) =>
              last' \in {"delay_pending", "delay_elapsed", "delay_error"}]_vars

C20_Witness ==
    /\ IsStream
    /\ pc = "loop"
    /\ last = "stream_wait"
    /\ state = "TimerActive"
    /\ delay = "elapsed"
    /\ Len(Handles) = 2

C20_WitnessFuture ==
    /\ IsFuture
    /\ pc = "loop"
    /\ last = "delay_elapsed"
    /\ Len(made) = 3
    /\ Count("WaitRetry") = 2

\* ---------------------------------------------------------------- C21
\* C21: an IoHandler with ceiling max_attempts counts each failure it is
\* given since construction or since the last ok(); it answers ForwardError
\* for every failure after the max_attempts-th, forwards none of the first
\* max_attempts unless its kind is PermissionDenied, and ok() puts the count
\* back to 0, so that the next max_attempts failures are retried again.
C21_BoundedRetryHandler ==
    [][machine = "IoHandler" =>
          /\ last' = "io_handle" =>
                 /\ current_attempt' = current_attempt + 1
                 /\ current_attempt' > max_attempts => answer'.p = "ForwardError"
                 /\ (current_attempt' <= max_attempts /\ answer'.p = "ForwardError") =>
                        answer'.e = "PermissionDenied"
                 /\ (current_attempt' <= max_attempts /\ answer'.p # "ForwardError") =>
                        answer'.p \in {"Repeat", "WaitRetry"}
          /\ last' = "io_ok" =>
                 /\ current_attempt' = 0
                 /\ answer' = Policy("none", 0)
          /\ (last = "io_ok" /\ last' = "io_handle" /\ max_attempts >= 1
                  /\ answer'.p = "ForwardError") =>
                 answer'.e = "PermissionDenied"
          /\ UNCHANGED max_attempts]_vars

\* The last failure within the ceiling is retried.
C21_Witness ==
    /\ machine = "IoHandler"
    /\ last = "io_handle"
    /\ max_attempts = 3
    /\ current_attempt = 3
    /\ answer.p = "Repeat"

\* The handler keeps forwarding after the ceiling.
C21_WitnessForwarding ==
    /\ machine = "IoHandler"
    /\ last = "io_handle"
    /\ max_attempts = 3
    /\ current_attempt = 5
    /\ answer.p = "ForwardError"
    /\ answer.e \in RepeatKinds

\* ok() has put the count back.
C21_WitnessReset ==
    /\ machine = "IoHandler"
    /\ last = "io_ok"
    /\ max_attempts = 3
    /\ current_attempt = 0

====
